---- MODULE Spec2Model ----
(***************************************************************************)
(* Model of src/font/loader.rs: FontLoader, the font providers it scans    *)
(* and the caches it keeps (fonts, query_cache, info_cache, inner_index).  *)
(* Indices are 0-based as in the source; a Rust Option is a sequence of    *)
(* length 0 (None) or 1 (Some).                                            *)
(***************************************************************************)
EXTENDS Integers, Sequences, FiniteSets, TLC

\* ------------------------------------------------------------ bounds
\* At most this many add_font_provider calls.
MaxProviders == 3
\* At most this many get calls.
MaxGets == 2
MaxHeld == 2

\* ------------------------------------------------------------ values
None == <<>>
Some(x) == <<x>>
IsSome(o) == o /= <<>>
Unwrap(o) == o[1]

\* seq[i] of a Rust Vec (0-based).
At(seq, i) == seq[i + 1]

\* HashMap::insert
Insert(map, key, value) ==
    [k \in DOMAIN map \cup {key} |-> IF k = key THEN value ELSE map[k]]

FontClasses == {"serif", "bold"}

\* FontInfo values: a descriptor with its classes, compared structurally.
InfoA == [name |-> "A", classes |-> {"serif"}]
InfoB == [name |-> "B", classes |-> {"serif", "bold"}]
InfoC == [name |-> "C", classes |-> {"bold"}]
FontInfos == {InfoA, InfoB, InfoC}

Characters == {"Q", "x"}

\* The character mapping of each font program that parses.
Mapping(program) ==
    CASE program = "fA"  -> {"x"}
      [] program = "fB"  -> {"Q", "x"}
      [] program = "fB2" -> {}
      [] program = "fC"  -> {"Q"}
      [] OTHER -> {}

Programs == {"fA", "fB", "fB2", "fC"}

\* Font::new(program): Ok(font) for a program that parses, Err otherwise.
FontNew(program) ==
    IF program \in Programs
    THEN Some([program |-> program, mapping |-> Mapping(program)])
    ELSE None

\* What FontProvider::get hands back: nothing, or a source whose bytes can
\* or cannot be read to the end.
Source(program) == Some([readable |-> TRUE, program |-> program])
Unreadable == Some([readable |-> FALSE, program |-> "io"])

\* The providers a caller may register: available() and get(info).
\* Provider1: A lacks 'Q', B has it (the scenario of the documentation).
Provider1 ==
    [available |-> <<InfoA, InfoB>>,
     get |-> [i \in FontInfos |->
                IF i = InfoA THEN Source("fA")
                ELSE IF i = InfoB THEN Source("fB") ELSE None]]
\* Provider2: advertises B but cannot deliver it; C is fine.
Provider2 ==
    [available |-> <<InfoB, InfoC>>,
     get |-> [i \in FontInfos |-> IF i = InfoC THEN Source("fC") ELSE None]]
\* Provider3: its own font under the info B, without any character.
Provider3 ==
    [available |-> <<InfoB>>,
     get |-> [i \in FontInfos |-> IF i = InfoB THEN Source("fB2") ELSE None]]
\* Provider4: A does not parse, C cannot be read.
Provider4 ==
    [available |-> <<InfoA, InfoC>>,
     get |-> [i \in FontInfos |->
                IF i = InfoA THEN Source("garbage")
                ELSE IF i = InfoC THEN Unreadable ELSE None]]

ProviderPool == {Provider1, Provider2, Provider3, Provider4}

\* FontQuery values.
ClassLists == {<<>>, <<"bold">>}
FallbackLists == {<<>>, <<"serif">>, <<"serif", "bold">>, <<"bold", "serif">>}
FontQuery ==
    [character : Characters, classes : ClassLists, fallback : FallbackLists]

\* ------------------------------------------------------------ state
VARIABLES
    providers,     \* FontLoader.providers
    fonts,         \* FontLoaderState.fonts: <<[index: Option, font]>>
    query_cache,   \* FontLoaderState.query_cache
    info_cache,    \* FontLoaderState.info_cache
    inner_index,   \* FontLoaderState.inner_index
    last,          \* the last call: its arguments, result and what it did
    served,        \* every (query, internal, external, font) a get returned
    fetchCount,    \* per FontInfo: calls of FontProvider::get so far
    parseCount,    \* per FontInfo: calls of Font::new so far
    loadCount,     \* per FontInfo: fonts stored for it so far
    nGets,         \* number of get calls so far
    held           \* live Ref<Font> values the caller holds: the shared
                   \* borrows of the RefCell between calls

vars == <<providers, fonts, query_cache, info_cache, inner_index,
          last, served, fetchCount, parseCount, loadCount, nGets, held>>

\* The loader as one value.
Loader == [providers |-> providers, fonts |-> fonts,
           query_cache |-> query_cache, info_cache |-> info_cache,
           inner_index |-> inner_index]

\* FontLoader::new
New == [providers |-> <<>>, fonts |-> <<>>,
        query_cache |-> <<>>, info_cache |-> <<>>, inner_index |-> <<>>]

\* ------------------------------------------------------------ get
\* The test of lines 74-76.
Matches(query, class, info) ==
    LET viable == class \in info.classes
    IN viable /\ \A i \in 1..Len(query.classes) : query.classes[i] \in info.classes

\* The lookup of line 83 never finding anything.
CachedIndexNever(self, info) == None

\* Line 83: state.info_cache.get(info)
CachedIndex(self, info) ==
    IF info \in DOMAIN self.info_cache THEN Some(self.info_cache[info]) ELSE None

\* The missing source treated like a failed load: the call returns None.
ProviderLiedFatal(self) ==
    [kind |-> "return", self |-> self, index |-> 0, outcome |-> "lied"]

\* Lines 96-98: the provider has no source for an info it listed.
ProviderLied(self) ==
    [kind |-> "continue", self |-> self, index |-> 0, outcome |-> "lied"]

\* The failed load treated like a missing source: next candidate.
LoadFailedSkipped(self, outcome) ==
    [kind |-> "continue", self |-> self, index |-> 0, outcome |-> outcome]

\* Lines 87-88: `.ok()?` on the read and on the parse.
LoadFailed(self, outcome) ==
    [kind |-> "return", self |-> self, index |-> 0, outcome |-> outcome]

\* The external index assigned when the font is loaded, not when it is
\* first served.
StoreFontEager(self, info, font) ==
    LET index == Len(self.fonts) IN
    [kind |-> "index",
     self |-> [self EXCEPT
                 !.info_cache = Insert(@, info, index),
                 !.fonts = Append(@, [index |-> Some(Len(self.inner_index)),
                                      font |-> font]),
                 !.inner_index = Append(@, index)],
     index |-> index, outcome |-> "loaded"]

\* Line 93 inserting the font at the front of the store instead of pushing
\* it at the end.
StoreFontAtFront(self, info, font) ==
    [kind |-> "index",
     self |-> [self EXCEPT
                 !.info_cache = Insert(@, info, 0),
                 !.fonts = <<[index |-> None, font |-> font]>> \o @],
     index |-> 0, outcome |-> "loaded"]

\* Line 92 caching every info at position 0 of the store.
StoreFontCachedAtZero(self, info, font) ==
    LET index == Len(self.fonts) IN
    [kind |-> "index",
     self |-> [self EXCEPT
                 !.info_cache = Insert(@, info, 0),
                 !.fonts = Append(@, [index |-> None, font |-> font])],
     index |-> index, outcome |-> "loaded"]

\* Lines 91-95 without line 92: the font is stored but not cached.
StoreFontUncached(self, info, font) ==
    LET index == Len(self.fonts) IN
    [kind |-> "index",
     self |-> [self EXCEPT
                 !.fonts = Append(@, [index |-> None, font |-> font])],
     index |-> index, outcome |-> "loaded"]

\* Lines 91-95: store the parsed font and cache it by its info.
StoreFont(self, info, font) ==
    LET index == Len(self.fonts) IN
    [kind |-> "index",
     self |-> [self EXCEPT
                 !.info_cache = Insert(@, info, index),
                 !.fonts = Append(@, [index |-> None, font |-> font])],
     index |-> index, outcome |-> "loaded"]

\* Lines 83-99: the index of the font of info, loading it if needed.
\* kind "index": go on with index; "continue": next candidate; "return":
\* the call returns None.
Acquire(self, provider, info) ==
    LET cached == CachedIndex(self, info) IN
    IF IsSome(cached)
    THEN [kind |-> "index", self |-> self, index |-> Unwrap(cached),
          outcome |-> "cached"]
    ELSE LET source == provider.get[info] IN
      IF ~IsSome(source) THEN ProviderLied(self)
      ELSE IF ~Unwrap(source).readable THEN LoadFailed(self, "read_failed")
      ELSE LET font == FontNew(Unwrap(source).program) IN
        IF ~IsSome(font) THEN LoadFailed(self, "parse_failed")
        ELSE StoreFont(self, info, Unwrap(font))

\* Lines 111-114 run on every serving, not only when the entry has no index.
ExternalIndexAlwaysNew(self, index) ==
    LET new_index == Len(self.inner_index) IN
    [self |-> [self EXCEPT
                 !.inner_index = Append(@, index),
                 !.fonts[index + 1].index = Some(new_index)],
     external_index |-> new_index]

\* Lines 109-115: the external index of the entry, assigned now if it has none.
ExternalIndex(self, index) ==
    LET entry == At(self.fonts, index) IN
    IF IsSome(entry.index)
    THEN [self |-> self, external_index |-> Unwrap(entry.index)]
    ELSE LET new_index == Len(self.inner_index) IN
         [self |-> [self EXCEPT
                      !.inner_index = Append(@, index),
                      !.fonts[index + 1].index = Some(new_index)],
          external_index |-> new_index]

\* Commit without lines 112-113: the new external index is returned but
\* not recorded.
CommitWithoutExternalIndex(self, query, index) ==
    LET cached == [self EXCEPT !.query_cache = Insert(@, query, index)]
        entry == At(cached.fonts, index)
    IN [self |-> cached,
        external_index |-> IF IsSome(entry.index) THEN Unwrap(entry.index)
                           ELSE Len(cached.inner_index)]

\* Commit without line 105: the query result is not cached.
CommitWithoutQueryCache(self, query, index) ==
    ExternalIndex(self, index)

\* Lines 105-115: cache the query result, then find the external index.
Commit(self, query, index) ==
    ExternalIndex([self EXCEPT !.query_cache = Insert(@, query, index)], index)

\* One candidate (lines 74-124): the info at position k of provider p, under
\* class. t = [self, trace]; the result says whether get returns here (done)
\* and what.
Candidate(t, query, class, p, k) ==
    LET provider == At(t.self.providers, p)
        info == At(provider.available, k)
    IN
    IF ~Matches(query, class, info)
    THEN [self |-> t.self, trace |-> t.trace, done |-> FALSE, res |-> None]
    ELSE
      LET a == Acquire(t.self, provider, info)
          event == [class |-> class, provider |-> p, position |-> k,
                    info |-> info, outcome |-> a.outcome, has_char |-> FALSE,
                    touched |-> a.self /= t.self]
      IN IF a.kind = "continue"
         THEN [self |-> a.self, trace |-> Append(t.trace, event),
               done |-> FALSE, res |-> None]
         ELSE IF a.kind = "return"
         THEN [self |-> a.self, trace |-> Append(t.trace, event),
               done |-> TRUE, res |-> None]
         ELSE
           LET has_char == query.character \in At(a.self.fonts, a.index).font.mapping
           IN IF has_char
              THEN LET c == Commit(a.self, query, a.index) IN
                   [self |-> c.self,
                    trace |-> Append(t.trace,
                                [event EXCEPT !.has_char = TRUE, !.touched = TRUE]),
                    done |-> TRUE,
                    res |-> Some([external_index |-> c.external_index,
                                  font |-> At(c.self.fonts, a.index).font,
                                  index |-> a.index])]
              ELSE [self |-> a.self, trace |-> Append(t.trace, event),
                    done |-> FALSE, res |-> None]

\* Line 73: the infos of provider p from position k on.
RECURSIVE ScanInfos(_, _, _, _, _)
ScanInfos(t, query, class, p, k) ==
    LET available == At(t.self.providers, p).available IN
    IF k >= Len(available)
    THEN [self |-> t.self, trace |-> t.trace, done |-> FALSE, res |-> None]
    ELSE LET r == Candidate(t, query, class, p, k) IN
         IF r.done THEN r ELSE ScanInfos(r, query, class, p, k + 1)

\* Line 72: the providers from position p on.
RECURSIVE ScanProviders(_, _, _, _)
ScanProviders(t, query, class, p) ==
    IF p >= Len(t.self.providers)
    THEN [self |-> t.self, trace |-> t.trace, done |-> FALSE, res |-> None]
    ELSE LET r == ScanInfos(t, query, class, p, 0) IN
         IF r.done THEN r ELSE ScanProviders(r, query, class, p + 1)

\* The loops of lines 70 and 72 swapped: for each provider, every class.
RECURSIVE ScanClassesOfProvider(_, _, _, _)
ScanClassesOfProvider(t, query, p, c) ==
    IF c >= Len(query.fallback)
    THEN [self |-> t.self, trace |-> t.trace, done |-> FALSE, res |-> None]
    ELSE LET r == ScanInfos(t, query, At(query.fallback, c), p, 0) IN
         IF r.done THEN r ELSE ScanClassesOfProvider(r, query, p, c + 1)

RECURSIVE ScanProvidersOuter(_, _, _)
ScanProvidersOuter(t, query, p) ==
    IF p >= Len(t.self.providers)
    THEN [self |-> t.self, trace |-> t.trace, done |-> FALSE, res |-> None]
    ELSE LET r == ScanClassesOfProvider(t, query, p, 0) IN
         IF r.done THEN r ELSE ScanProvidersOuter(r, query, p + 1)

ScanFallbackProvidersOuter(t, query, c) == ScanProvidersOuter(t, query, 0)

\* Line 70: the fallback classes from position c on.
RECURSIVE ScanFallback(_, _, _)
ScanFallback(t, query, c) ==
    IF c >= Len(query.fallback)
    THEN [self |-> t.self, trace |-> t.trace, done |-> FALSE, res |-> None]
    ELSE LET r == ScanProviders(t, query, At(query.fallback, c), 0) IN
         IF r.done THEN r ELSE ScanFallback(r, query, c + 1)

\* get with a cache key that leaves out the fallback list: a query is
\* answered from the entry of any cached query of the same character and
\* classes.
GetFontKeyWithoutFallback(self, query) ==
    LET same == {q \in DOMAIN self.query_cache :
                   q.character = query.character /\ q.classes = query.classes}
    IN IF same /= {}
       THEN LET index == self.query_cache[CHOOSE q \in same : TRUE]
            IN [self |-> self,
                res |-> Some([external_index |-> Unwrap(At(self.fonts, index).index),
                              font |-> At(self.fonts, index).font,
                              index |-> index]),
                hit |-> TRUE, trace |-> <<>>]
       ELSE LET r == ScanFallback([self |-> self, trace |-> <<>>], query, 0)
            IN [self |-> r.self, res |-> r.res, hit |-> FALSE, trace |-> r.trace]

\* FontLoader::get: [self, res, hit, trace].
GetFont(self, query) ==
    IF query \in DOMAIN self.query_cache
    THEN LET index == self.query_cache[query]
             extern_index == Unwrap(At(self.fonts, index).index)
         IN [self |-> self,
             res |-> Some([external_index |-> extern_index,
                           font |-> At(self.fonts, index).font,
                           index |-> index]),
             hit |-> TRUE, trace |-> <<>>]
    ELSE LET r == ScanFallback([self |-> self, trace |-> <<>>], query, 0)
         IN [self |-> r.self, res |-> r.res, hit |-> FALSE, trace |-> r.trace]

\* get_with_index indexing the fonts with the external index itself.
GetWithIndexFontDirect(self, index) ==
    IF index >= Len(self.fonts)
    THEN [panic |-> TRUE, font |-> None]
    ELSE [panic |-> FALSE, font |-> Some(At(self.fonts, index).font)]

\* FontLoader::get_with_index: the font, or a panic (index out of bounds).
GetWithIndexFont(self, index) ==
    IF index >= Len(self.inner_index)
    THEN [panic |-> TRUE, font |-> None]
    ELSE LET internal == At(self.inner_index, index)
         IN [panic |-> FALSE, font |-> Some(At(self.fonts, internal).font)]

\* ------------------------------------------------------------ borrows
\* Line 79 is reached: the query misses query_cache (line 58) and some info
\* passes the test of lines 74-78. The first such info in scan order is
\* always reached, since the loops return only after a borrow_mut.
ReachesBorrowMut(self, query) ==
    /\ query \notin DOMAIN self.query_cache
    /\ \E c \in 1..Len(query.fallback), p \in 1..Len(self.providers) :
         \E k \in 1..Len(self.providers[p].available) :
            Matches(query, query.fallback[c], self.providers[p].available[k])

\* RefCell::borrow_mut (line 79) panics while any Ref of the cell is alive.
\* Between calls the cell has no RefMut, so borrow (lines 57, 121, 138)
\* never panics.
BorrowMutPanics(refs) == refs > 0

\* ------------------------------------------------------------ bookkeeping
\* How often an outcome of the given kinds occurs for info in a trace.
Count(trace, info, outcomes) ==
    Cardinality({i \in 1..Len(trace) :
                   trace[i].info = info /\ trace[i].outcome \in outcomes})

Fetching == {"lied", "read_failed", "parse_failed", "loaded"}
Parsing == {"parse_failed", "loaded"}

NoCall == [op |-> "new", query |-> None, index |-> None, res |-> None,
           hit |-> FALSE, trace |-> <<>>, repeat |-> FALSE, panic |-> FALSE]

\* ------------------------------------------------------------ actions
Init ==
    /\ providers = New.providers
    /\ fonts = New.fonts
    /\ query_cache = New.query_cache
    /\ info_cache = New.info_cache
    /\ inner_index = New.inner_index
    /\ last = NoCall
    /\ served = {}
    /\ fetchCount = [i \in FontInfos |-> 0]
    /\ parseCount = [i \in FontInfos |-> 0]
    /\ loadCount = [i \in FontInfos |-> 0]
    /\ nGets = 0
    /\ held = 0

\* add_font_provider(provider); a caller registers each provider once. It
\* takes &mut self, which the compiler grants only when no Ref<Font> of the
\* loader is alive.
AddFontProvider ==
    \E provider \in ProviderPool :
      /\ Len(providers) < MaxProviders
      /\ held = 0
      /\ \A i \in 1..Len(providers) : providers[i] /= provider
      /\ providers' = Append(providers, provider)
      /\ last' = [NoCall EXCEPT !.op = "add_font_provider"]
      /\ UNCHANGED <<fonts, query_cache, info_cache, inner_index, served,
                     fetchCount, parseCount, loadCount, nGets, held>>

\* get(query) panicking at line 79: nothing has been written yet.
GetPanics(query) ==
    /\ last' = [op |-> "get", query |-> Some(query), index |-> None,
                res |-> None, hit |-> FALSE, trace |-> <<>>,
                repeat |-> (last.op = "get" /\ last.query = Some(query)),
                panic |-> TRUE]
    /\ UNCHANGED <<fonts, query_cache, info_cache, inner_index, served,
                   fetchCount, parseCount, loadCount, held>>

\* get(query) running to its return; keep: the caller keeps the returned
\* reference alive.
GetReturns(query, keep) ==
    \E r \in {GetFont(Loader, query)} :
         /\ held' = IF keep /\ IsSome(r.res) THEN held + 1 ELSE held
         /\ fonts' = r.self.fonts
         /\ query_cache' = r.self.query_cache
         /\ info_cache' = r.self.info_cache
         /\ inner_index' = r.self.inner_index
         /\ last' = [op |-> "get", query |-> Some(query), index |-> None,
                     res |-> r.res, hit |-> r.hit, trace |-> r.trace,
                     repeat |-> (last.op = "get" /\ last.query = Some(query)),
                     panic |-> FALSE]
         /\ served' = IF IsSome(r.res)
                      THEN served \cup {[query |-> query,
                                         index |-> Unwrap(r.res).index,
                                         external_index |-> Unwrap(r.res).external_index,
                                         font |-> Unwrap(r.res).font]}
                      ELSE served
         /\ fetchCount' = [i \in FontInfos |->
                             fetchCount[i] + Count(r.trace, i, Fetching)]
         /\ parseCount' = [i \in FontInfos |->
                             parseCount[i] + Count(r.trace, i, Parsing)]
         /\ loadCount' = [i \in FontInfos |->
                            loadCount[i] + Count(r.trace, i, {"loaded"})]

\* get(query), by a caller that drops the returned reference before its
\* next call.
Get ==
    \E query \in FontQuery :
      /\ nGets < MaxGets
      /\ IF ReachesBorrowMut(Loader, query) /\ BorrowMutPanics(held)
         THEN GetPanics(query)
         ELSE GetReturns(query, FALSE)
      /\ nGets' = nGets + 1
      /\ UNCHANGED providers

\* get(query), by a caller that keeps the returned reference.
GetKeep ==
    \E query \in FontQuery :
      /\ nGets < MaxGets
      /\ held < MaxHeld
      /\ IF ReachesBorrowMut(Loader, query) /\ BorrowMutPanics(held)
         THEN GetPanics(query)
         ELSE GetReturns(query, TRUE)
      /\ nGets' = nGets + 1
      /\ UNCHANGED providers

\* get_with_index(index); the caller drops the returned reference.
GetWithIndex ==
    \E index \in 0..Len(inner_index) :
      /\ \E r \in {GetWithIndexFont(Loader, index)} :
         last' = [NoCall EXCEPT !.op = "get_with_index", !.index = Some(index),
                                !.res = r.font, !.panic = r.panic]
      /\ UNCHANGED <<providers, fonts, query_cache, info_cache, inner_index,
                     served, fetchCount, parseCount, loadCount, nGets, held>>

\* get_with_index(index); the caller keeps the returned reference.
GetWithIndexKeep ==
    \E index \in 0..Len(inner_index) :
      /\ held < MaxHeld
      /\ \E r \in {GetWithIndexFont(Loader, index)} :
         /\ last' = [NoCall EXCEPT !.op = "get_with_index", !.index = Some(index),
                                   !.res = r.font, !.panic = r.panic]
         /\ held' = IF r.panic THEN held ELSE held + 1
      /\ UNCHANGED <<providers, fonts, query_cache, info_cache, inner_index,
                     served, fetchCount, parseCount, loadCount, nGets>>

\* The caller drops a reference it kept.
Release ==
    /\ held > 0
    /\ held' = held - 1
    /\ last' = [NoCall EXCEPT !.op = "drop"]
    /\ UNCHANGED <<providers, fonts, query_cache, info_cache, inner_index,
                   served, fetchCount, parseCount, loadCount, nGets>>

\* A caller that holds no reference across calls.
Next == AddFontProvider \/ Get \/ GetWithIndex

Spec == Init /\ [][Next]_vars

\* A caller that holds each returned reference until it drops it, up to
\* MaxHeld references at a time.
NextBorrow == AddFontProvider \/ GetKeep \/ GetWithIndexKeep \/ Release

SpecBorrow == Init /\ [][NextBorrow]_vars

\* ------------------------------------------------------------ claims
\* No event of the trace fetched from a provider or parsed a font.
NoFetchNoParse(trace) ==
    \A i \in 1..Len(trace) : trace[i].outcome \notin Fetching \cup Parsing

\* This step is a get of the query of the last call, itself a get.
SecondGetInARow ==
    /\ last.op = "get"
    /\ last'.op = "get"
    /\ nGets' = nGets + 1
    /\ last'.query = last.query

\* C1, as stated: for every query, a second get(Q) right after get(Q)
\* returns what the first returned and fetches and parses nothing.
C1_IdempotentEveryQuery ==
    [][SecondGetInARow =>
         (last'.res = last.res /\ NoFetchNoParse(last'.trace))]_vars

\* C1, amended: when get(Q) returned a font, a second get(Q) right after it
\* returns the same external index and the same font, and fetches and parses
\* nothing.
C1_IdempotentServedQuery ==
    [][(SecondGetInARow /\ IsSome(last.res)) =>
         (last'.res = last.res /\ NoFetchNoParse(last'.trace))]_vars

\* A second get in a row of a query that the first get returned a font for,
\* answered from query_cache.
C1_Witness ==
    /\ last.op = "get"
    /\ last.repeat
    /\ IsSome(last.res)
    /\ last.hit

\* The font a provider delivers for an info: fetched, read and parsed.
ProvidedFont(provider, info) ==
    LET source == provider.get[info] IN
    IF IsSome(source) /\ Unwrap(source).readable
    THEN FontNew(Unwrap(source).program)
    ELSE None

\* The (fallback position, provider position, listing position) triples the
\* three loops of a get go through.
AllTriples(provs, query) ==
    UNION {{<<c, p, k>> : k \in 0..Len(At(provs, p).available) - 1} :
             <<c, p>> \in (0..Len(query.fallback) - 1) \X (0..Len(provs) - 1)}

\* The triples whose info has the fallback class and every required class.
ViableTriples(provs, query) ==
    {t \in AllTriples(provs, query) :
        Matches(query, At(query.fallback, t[1]),
                At(At(provs, t[2]).available, t[3]))}

\* Scan order: by fallback position, then provider, then listing position.
Precedes(t, u) ==
    \/ t[1] < u[1]
    \/ t[1] = u[1] /\ t[2] < u[2]
    \/ t[1] = u[1] /\ t[2] = u[2] /\ t[3] < u[3]

\* The font of a triple: the one its provider delivers for its info.
TripleFont(provs, t) ==
    ProvidedFont(At(provs, t[2]), At(At(provs, t[2]).available, t[3]))

\* The viable triples whose font contains the character of the query.
MatchingTriples(provs, query) ==
    {t \in ViableTriples(provs, query) :
        /\ IsSome(TripleFont(provs, t))
        /\ query.character \in Unwrap(TripleFont(provs, t)).mapping}

\* The last call was a get that scanned the providers to the end or to a
\* match: not answered from query_cache, not cut short by a failed load.
ScannedGet ==
    /\ last.op = "get"
    /\ ~last.hit
    /\ \A i \in 1..Len(last.trace) :
         last.trace[i].outcome \notin {"read_failed", "parse_failed"}

\* C2: a get returns the font of the first triple in scan order whose info
\* is viable and whose font contains the character (stated for a get that
\* scans the current provider list and meets no read or parse failure).
C2_FirstMatchWins ==
    ScannedGet =>
      LET query == Unwrap(last.query)
          matching == MatchingTriples(providers, query)
      IN \A t \in matching :
           (\A u \in matching : u = t \/ Precedes(t, u)) =>
             /\ IsSome(last.res)
             /\ Unwrap(last.res).font = Unwrap(TripleFont(providers, t))

\* A loader with the same providers and nothing cached.
Fresh(provs) == [New EXCEPT !.providers = provs]

\* The font of a result, or None.
ResultFont(res) == IF IsSome(res) THEN Some(Unwrap(res).font) ELSE None

\* C3: whatever gets came before, get(Q) returns what it returns on a loader
\* with the same providers and no earlier get: absence in both, or the same
\* font (stated for the queries that are not answered from query_cache; the
\* external index is left out).
C3_ResultIgnoresHistory ==
    \A query \in FontQuery \ DOMAIN query_cache :
       ResultFont(GetFont(Loader, query).res)
         = ResultFont(GetFont(Fresh(providers), query).res)

\* C4, as stated: over any sequence of gets, the fetch and the parse for a
\* given FontInfo are each performed at most once in total.
C4_FetchedAndParsedOnce ==
    \A info \in FontInfos : fetchCount[info] <= 1 /\ parseCount[info] <= 1

\* C4, amended: a font is stored for a given FontInfo at most once, and once
\* an info is in info_cache no get fetches or parses for it again.
C4_LoadedOnce ==
    /\ [](\A info \in FontInfos :
            /\ loadCount[info] <= 1
            /\ loadCount[info] = 1 <=> info \in DOMAIN info_cache)
    /\ [][\A info \in DOMAIN info_cache :
            /\ fetchCount'[info] = fetchCount[info]
            /\ parseCount'[info] = parseCount[info]
            /\ loadCount'[info] = loadCount[info]]_vars

\* A second query was served, by a scan, from a font that an earlier get
\* had loaded: the info was fetched and parsed once.
C4_Witness ==
    /\ last.op = "get"
    /\ \E i \in 1..Len(last.trace) :
         /\ last.trace[i].outcome = "cached"
         /\ last.trace[i].has_char
         /\ fetchCount[last.trace[i].info] = 1
         /\ parseCount[last.trace[i].info] = 1

\* C5: when a provider registered earlier advertises, for the same fallback
\* class, a viable info whose font contains the character, get does not
\* return the font found at a later provider (stated for a get that scans
\* the current provider list and meets no read or parse failure).
C5_EarlierProviderWins ==
    (ScannedGet /\ IsSome(last.res)) =>
      LET query == Unwrap(last.query)
          serving == last.trace[Len(last.trace)]
      IN \A t \in MatchingTriples(providers, query) :
           At(query.fallback, t[1]) = serving.class => t[2] >= serving.provider

\* The position of a class in a fallback list (the lists hold no class twice).
FallbackPosition(query, class) ==
    CHOOSE c \in 0..Len(query.fallback) - 1 : At(query.fallback, c) = class

\* The event of the trace is the examination of the triple.
EventOf(query, event, t) ==
    /\ event.class = At(query.fallback, t[1])
    /\ event.provider = t[2]
    /\ event.position = t[3]

\* C6: during a get, the candidates are examined in the order of the
\* fallback list, and before any candidate is examined under a class, every
\* viable candidate of every earlier class, from all providers, has been
\* examined and has not matched.
C6_FallbackOrder ==
    (last.op = "get" /\ ~last.hit) =>
      LET query == Unwrap(last.query)
          trace == last.trace
      IN /\ \A i, j \in 1..Len(trace) :
              i < j => FallbackPosition(query, trace[i].class)
                         <= FallbackPosition(query, trace[j].class)
         /\ \A j \in 1..Len(trace) :
              \A t \in ViableTriples(providers, query) :
                 t[1] < FallbackPosition(query, trace[j].class) =>
                   \E i \in 1..(j - 1) :
                      EventOf(query, trace[i], t) /\ ~trace[i].has_char

\* A get served a font under the second fallback class after candidates of
\* two providers had been examined under the first.
C6_Witness ==
    /\ last.op = "get"
    /\ IsSome(last.res)
    /\ Len(last.trace) >= 3
    /\ last.trace[Len(last.trace)].class = At(Unwrap(last.query).fallback, 1)
    /\ last.trace[1].class = At(Unwrap(last.query).fallback, 0)
    /\ last.trace[2].class = At(Unwrap(last.query).fallback, 0)
    /\ last.trace[1].provider /= last.trace[2].provider

\* C7: any two gets, of whatever queries and however far apart, that
\* resolved to the same store entry returned the same external index.
C7_Interning ==
    \A r1, r2 \in served :
       r1.index = r2.index => r1.external_index = r2.external_index

\* Two structurally distinct queries were served from the same store entry.
C7_Witness ==
    \E r1, r2 \in served : r1.query /= r2.query /\ r1.index = r2.index

\* C8: for every (e, font) some get returned, get_with_index(e) returns
\* that font, whatever get and add_font_provider calls came after.
C8_ExternalIndexStable ==
    \A r \in served :
       GetWithIndexFont(Loader, r.external_index)
         = [panic |-> FALSE, font |-> Some(r.font)]

\* get_with_index was called with an external index that a get had
\* returned, after a later get had served another font, and the external
\* index differs from the internal one.
C8_Witness ==
    /\ last.op = "get_with_index"
    /\ Cardinality({r.font : r \in served}) >= 2
    /\ \E r \in served :
         /\ last.index = Some(r.external_index)
         /\ last.res = Some(r.font)
         /\ r.external_index /= r.index

\* The triple that an event of the trace examined.
TripleOf(query, event) ==
    <<FallbackPosition(query, event.class), event.provider, event.position>>

\* u is the viable triple that follows t in scan order.
NextViable(provs, query, t, u) ==
    /\ u \in ViableTriples(provs, query)
    /\ Precedes(t, u)
    /\ \A v \in ViableTriples(provs, query) :
         ~(Precedes(t, v) /\ Precedes(v, u))

\* C9: a viable candidate whose provider returns no source is skipped: no
\* cache is touched, nothing is returned for it, and the scan goes on with
\* the next viable candidate in scan order.
C9_LyingProviderSkipped ==
    (last.op = "get" /\ ~last.hit) =>
      LET query == Unwrap(last.query)
          trace == last.trace
      IN \A i \in 1..Len(trace) :
           trace[i].outcome = "lied" =>
             /\ ~trace[i].touched
             /\ ~trace[i].has_char
             /\ i = Len(trace) => ~IsSome(last.res)
             /\ \A u \in ViableTriples(providers, query) :
                  NextViable(providers, query, TripleOf(query, trace[i]), u) =>
                    i < Len(trace) /\ EventOf(query, trace[i + 1], u)

\* A get met a provider that lied and served the font of a later candidate.
C9_Witness ==
    /\ last.op = "get"
    /\ IsSome(last.res)
    /\ \E i \in 1..Len(last.trace) - 1 : last.trace[i].outcome = "lied"

\* C10: a viable, not yet cached candidate whose bytes cannot be read or
\* parsed ends the get: it is the last candidate examined, the get returns
\* None, nothing is stored for the info and the query is not cached.
C10_LoadFailureAborts ==
    (last.op = "get" /\ ~last.hit) =>
      LET query == Unwrap(last.query)
          trace == last.trace
      IN \A i \in 1..Len(trace) :
           trace[i].outcome \in {"read_failed", "parse_failed"} =>
             /\ i = Len(trace)
             /\ ~IsSome(last.res)
             /\ ~trace[i].touched
             /\ trace[i].info \notin DOMAIN info_cache
             /\ query \notin DOMAIN query_cache

\* A get ended on a font that does not parse although a later candidate
\* is viable and has the character.
C10_Witness ==
    /\ last.op = "get"
    /\ ~IsSome(last.res)
    /\ Len(last.trace) >= 1
    /\ last.trace[Len(last.trace)].outcome = "parse_failed"
    /\ \E t \in MatchingTriples(providers, Unwrap(last.query)) :
         Precedes(TripleOf(Unwrap(last.query), last.trace[Len(last.trace)]), t)

\* C11: get_with_index(e) returns a font for exactly the external indices
\* handed out so far: the indices some get returned are 0..len-1 of
\* inner_index, for each of them it returns the font, and for every
\* e >= len(inner_index) it panics.
C11_IndexInBoundsOrPanic ==
    /\ {r.external_index : r \in served} = 0..Len(inner_index) - 1
    /\ \A r \in served : ~GetWithIndexFont(Loader, r.external_index).panic
    /\ \A e \in 0..Len(fonts) + 1 :
         GetWithIndexFont(Loader, e).panic <=> e >= Len(inner_index)
    /\ last.op = "get_with_index" =>
         /\ last.panic <=> Unwrap(last.index) >= Len(inner_index)
         /\ last.panic => ~IsSome(last.res)
         /\ ~last.panic =>
              \E r \in served : /\ r.external_index = Unwrap(last.index)
                                /\ last.res = Some(r.font)

\* get_with_index panicked on the first index not handed out, on a loader
\* that has handed out one index and stores a second font without index.
C11_Witness ==
    /\ last.op = "get_with_index"
    /\ last.panic
    /\ last.index = Some(1)
    /\ Len(inner_index) = 1
    /\ Len(fonts) = 2

\* C12: in every reachable state, a get whose query has an empty fallback
\* list, and any get on a loader without providers, returns None (and
\* examines no candidate and changes nothing).
C12_EmptyScanSpace ==
    /\ \A query \in FontQuery :
         (query.fallback = <<>> \/ providers = <<>>) =>
            GetFont(Loader, query)
              = [self |-> Loader, res |-> None, hit |-> FALSE, trace |-> <<>>]
    /\ (last.op = "get" /\ (Unwrap(last.query).fallback = <<>> \/ providers = <<>>))
         => (~IsSome(last.res) /\ last.trace = <<>>)

\* A get with an empty fallback list returned None on a loader that has
\* providers, a stored font and a cached query of the same character.
C12_Witness ==
    /\ last.op = "get"
    /\ Unwrap(last.query).fallback = <<>>
    /\ ~IsSome(last.res)
    /\ Len(providers) >= 1
    /\ \E query \in DOMAIN query_cache :
         query.character = Unwrap(last.query).character

\* A get without providers returned None.
C12_WitnessNoProviders ==
    /\ last.op = "get"
    /\ providers = <<>>
    /\ Unwrap(last.query).fallback /= <<>>
    /\ ~IsSome(last.res)

\* C13: in every reachable state, inner_index[e] is a valid position in
\* fonts whose entry records the external index e, and an entry that records
\* an external index e is the one at inner_index[e]: the external indices
\* are exactly 0..len(inner_index)-1, one per served entry.
C13_ExternalIndexTable ==
    /\ \A e \in 0..Len(inner_index) - 1 :
         /\ At(inner_index, e) \in 0..Len(fonts) - 1
         /\ At(fonts, At(inner_index, e)).index = Some(e)
    /\ \A i \in 0..Len(fonts) - 1 :
         IsSome(At(fonts, i).index) =>
           /\ Unwrap(At(fonts, i).index) \in 0..Len(inner_index) - 1
           /\ At(inner_index, Unwrap(At(fonts, i).index)) = i
    /\ {Unwrap(At(fonts, i).index) :
          i \in {j \in 0..Len(fonts) - 1 : IsSome(At(fonts, j).index)}}
         = 0..Len(inner_index) - 1

\* Two external indices are assigned, in another order than the store's,
\* and a third entry has none.
C13_Witness ==
    /\ Len(inner_index) = 2
    /\ Len(fonts) = 3
    /\ At(inner_index, 0) > At(inner_index, 1)

\* C14: in every state between calls, every query_cache entry maps to a
\* valid position in fonts whose entry has an external index (so the unwrap
\* of line 61 does not fail).
C14_QueryCacheServed ==
    \A query \in DOMAIN query_cache :
       /\ query_cache[query] \in 0..Len(fonts) - 1
       /\ IsSome(At(fonts, query_cache[query]).index)

\* A get was answered from query_cache.
C14_Witness ==
    /\ last.op = "get"
    /\ last.hit
    /\ Unwrap(last.query) \in DOMAIN query_cache
    /\ IsSome(last.res)

\* The entry at internal position i of the store has an external index.
HasExternalIndex(store, i) ==
    i < Len(store) /\ IsSome(At(store, i).index)

\* This step is a get call.
GetStep == last'.op = "get" /\ nGets' = nGets + 1

\* What must hold of the state after any step: an entry has an external
\* index exactly if a successful get returned it, every entry is in
\* info_cache, and a font loaded by the last get that failed the character
\* check has no external index.
LazyAssigned ==
    /\ \A i \in 0..Len(fonts) - 1 :
         /\ IsSome(At(fonts, i).index) <=> \E r \in served : r.index = i
         /\ \E info \in DOMAIN info_cache : info_cache[info] = i
    /\ last.op = "get" =>
         \A j \in 1..Len(last.trace) :
            (last.trace[j].outcome = "loaded" /\ ~last.trace[j].has_char) =>
               /\ last.trace[j].info \in DOMAIN info_cache
               /\ ~HasExternalIndex(fonts, info_cache[last.trace[j].info])

\* C15: a store entry has an external index if and only if some successful
\* get returned it; a font loaded during a scan that failed the character
\* check stays in the store and in info_cache with no external index; an
\* entry served for the first time gets the length of inner_index before
\* the push as its external index, and its position is what is pushed; a
\* get that serves no entry for the first time pushes nothing.
C15_LazyExternalIndex ==
    [][/\ LazyAssigned'
       /\ GetStep =>
            IF IsSome(last'.res)
                 /\ ~HasExternalIndex(fonts, Unwrap(last'.res).index)
            THEN /\ Unwrap(last'.res).external_index = Len(inner_index)
                 /\ inner_index' = Append(inner_index, Unwrap(last'.res).index)
            ELSE inner_index' = inner_index]_vars

\* The spec's example: a get loaded two fonts, the first failed the
\* character check and has no external index, the second was served with
\* external index 0 from internal position 1.
C15_Witness ==
    /\ last.op = "get"
    /\ Len(last.trace) = 2
    /\ last.trace[1].outcome = "loaded" /\ ~last.trace[1].has_char
    /\ last.trace[2].outcome = "loaded" /\ last.trace[2].has_char
    /\ last.res = Some([external_index |-> 0, font |-> At(fonts, 1).font,
                        index |-> 1])
    /\ At(fonts, 0).index = None
    /\ inner_index = <<1>>

\* C16: in every reachable state each info_cache entry maps its info to a
\* valid store position whose font is the one a registered provider that
\* lists the info delivers for it, and an info is in info_cache exactly if a
\* fetch, read and parse for it succeeded (which happened once).
C16_InfoCacheDerived ==
    /\ \A info \in DOMAIN info_cache :
         /\ info_cache[info] \in 0..Len(fonts) - 1
         /\ \E p \in 1..Len(providers) :
              /\ \E k \in 1..Len(providers[p].available) :
                   providers[p].available[k] = info
              /\ ProvidedFont(providers[p], info)
                   = Some(At(fonts, info_cache[info]).font)
    /\ \A info \in FontInfos :
         /\ info \in DOMAIN info_cache <=> loadCount[info] >= 1
         /\ loadCount[info] <= 1
         /\ loadCount[info] <= parseCount[info]
         /\ parseCount[info] <= fetchCount[info]

\* Two infos are cached, at different positions, after a provider declined
\* one info and a parse failed for another.
C16_Witness ==
    /\ Cardinality(DOMAIN info_cache) >= 2
    /\ \E i \in FontInfos : fetchCount[i] > parseCount[i]
    /\ \E i \in FontInfos : parseCount[i] > loadCount[i]

\* The events of a trace that loaded a font.
Loaded(trace) == SelectSeq(trace, LAMBDA event : event.outcome = "loaded")

\* C17: a get that returns absence leaves query_cache and inner_index
\* unchanged, gives no entry an external index, and changes the state only
\* by appending each font it loaded, in load order and with no external
\* index, to the store and registering it in info_cache.
C17_UnsuccessfulGetEffect ==
    [][(GetStep /\ ~IsSome(last'.res)) =>
         LET loaded == Loaded(last'.trace) IN
         /\ query_cache' = query_cache
         /\ inner_index' = inner_index
         /\ providers' = providers
         /\ DOMAIN info_cache'
              = DOMAIN info_cache \cup {loaded[j].info : j \in 1..Len(loaded)}
         /\ Len(fonts') = Len(fonts) + Len(loaded)
         /\ \A i \in 1..Len(fonts) : fonts'[i] = fonts[i]
         /\ \A j \in 1..Len(loaded) :
              /\ fonts'[Len(fonts) + j]
                   = [index |-> None,
                      font |-> Unwrap(ProvidedFont(At(providers, loaded[j].provider),
                                                   loaded[j].info))]
              /\ loaded[j].info \notin DOMAIN info_cache
              /\ info_cache'[loaded[j].info] = Len(fonts) + j - 1
         /\ \A info \in DOMAIN info_cache : info_cache'[info] = info_cache[info]]_vars

\* A get returned absence after loading a font, which is in the store and
\* in info_cache with no external index.
C17_Witness ==
    /\ last.op = "get"
    /\ ~IsSome(last.res)
    /\ Len(Loaded(last.trace)) >= 1
    /\ \A j \in 1..Len(last.trace) :
         last.trace[j].outcome = "loaded" =>
           /\ last.trace[j].info \in DOMAIN info_cache
           /\ At(fonts, info_cache[last.trace[j].info]).index = None

\* The sequence s is a prefix of the sequence t.
IsPrefix(s, t) ==
    Len(s) <= Len(t) /\ \A i \in 1..Len(s) : t[i] = s[i]

\* Every key of the map f is a key of g with the same value.
Keeps(f, g) ==
    \A key \in DOMAIN f : key \in DOMAIN g /\ g[key] = f[key]

\* C18: across every step the provider list, the store and inner_index only
\* grow at the end; the font at an internal index never changes; an entry's
\* external index, once assigned, never changes (an entry may go from none
\* to one); and an existing query_cache or info_cache key keeps its internal
\* index.
C18_AppendOnly ==
    [][/\ IsPrefix(providers, providers')
       /\ IsPrefix(inner_index, inner_index')
       /\ Len(fonts) <= Len(fonts')
       /\ \A i \in 1..Len(fonts) :
            /\ fonts'[i].font = fonts[i].font
            /\ IsSome(fonts[i].index) => fonts'[i].index = fonts[i].index
       /\ Keeps(query_cache, query_cache')
       /\ Keeps(info_cache, info_cache')]_vars

\* A get served, from a scan, an entry that an earlier get had loaded but
\* not served: the entry went from no external index to index 1, after the
\* store, inner_index and both caches had grown.
C18_Witness ==
    /\ last.op = "get"
    /\ ~last.hit
    /\ inner_index = <<1, 0>>
    /\ Cardinality(DOMAIN query_cache) = 2
    /\ Cardinality(DOMAIN info_cache) >= 2

\* C19: in every reachable state, a get(Q) answered from query_cache returns
\* the font that a scan of Q over the registered providers, ignoring
\* query_cache, would return.
C19_QueryCacheCoherent ==
    \A query \in DOMAIN query_cache :
       ResultFont(GetFont(Loader, query).res)
         = ResultFont(GetFont([Loader EXCEPT !.query_cache = <<>>], query).res)

\* C20: get and get_with_index never fail on a borrow of the loader state,
\* whatever font references the caller still holds: a get does not panic,
\* and get_with_index panics only for an index that was not handed out.
C20_NoBorrowFailure ==
    /\ last.op = "get" => ~last.panic
    /\ (last.op = "get_with_index" /\ last.panic)
         => Unwrap(last.index) >= Len(inner_index)
====
